---------------------------- MODULE Spec2Model ----------------------------
(***************************************************************************)
(* UNS Delta Key Explorer: key parsing, sheet row extraction and the       *)
(* ingestion orchestration (handleConnect) of the three App components     *)
(* found in the repository:                                                *)
(*   "worker"     src/unnamed/part_001  (sequential files, worker decode)  *)
(*   "allSettled" src/App.tsx           (Promise.allSettled, main thread)  *)
(*   "single"     src/unnamed/part_002  (one file, main thread)            *)
(*                                                                         *)
(* JavaScript strings are modelled as sequences of one-character strings,  *)
(* so that split, endsWith, concatenation and number formatting are        *)
(* computed and not assumed.                                               *)
(***************************************************************************)
EXTENDS Integers, Sequences, FiniteSets, TLC

\* ------------------------------------------------------------------ bounds
\* Largest number of files the selection may hold (and a run may process).
MaxFiles == 3

\* ----------------------------------------------------------------- strings
Digit == <<"0", "1", "2", "3", "4", "5", "6", "7", "8", "9">>

IsDigit(c) == \E d \in 1..10 : Digit[d] = c

DigitVal(c) == (CHOOSE d \in 1..10 : Digit[d] = c) - 1

\* String(n) of a non-negative integer, as template literals format it.
RECURSIVE NumToString(_)
NumToString(n) ==
    IF n < 10 THEN <<Digit[n + 1]>>
    ELSE NumToString(n \div 10) \o <<Digit[(n % 10) + 1]>>

\* a < b for canonical decimal strings (no leading zeros): shorter is
\* smaller, equal lengths compare digit by digit.
NumLess(a, b) ==
    \/ Len(a) < Len(b)
    \/ /\ Len(a) = Len(b)
       /\ \E i \in 1..Len(a) :
             /\ DigitVal(a[i]) < DigitVal(b[i])
             /\ \A j \in 1..(i - 1) : a[j] = b[j]

\* String.prototype.indexOf(sep) on the suffix starting at position from
\* (1-based); 0 when sep does not occur.
IndexOf(s, sep, from) ==
    LET hits == {i \in from..(Len(s) - Len(sep) + 1) :
                    SubSeq(s, i, i + Len(sep) - 1) = sep}
    IN IF hits = {} THEN 0 ELSE CHOOSE i \in hits : \A j \in hits : i <= j

\* String.prototype.includes
Includes(s, sep) == IndexOf(s, sep, 1) # 0

\* String.prototype.endsWith
EndsWith(s, suffix) ==
    /\ Len(s) >= Len(suffix)
    /\ SubSeq(s, Len(s) - Len(suffix) + 1, Len(s)) = suffix

\* String.prototype.split with a non-empty separator: left to right,
\* non-overlapping, empty pieces kept.
RECURSIVE Split(_, _)
Split(s, sep) ==
    LET i == IndexOf(s, sep, 1)
    IN IF i = 0 THEN <<s>>
       ELSE <<SubSeq(s, 1, i - 1)>> \o Split(SubSeq(s, i + Len(sep), Len(s)), sep)

\* Array.prototype.find: the first element satisfying Test, or Undefined.
Undefined == <<"undefined">>

Null == <<"null">>

\* A truthy value that is not a string (a number), as a raw key.
NumberValue == <<"number">>

\* typeof v !== 'string'
NonStrings == {Undefined, Null, NumberValue}

\* The null a function returns in place of a ParsedRecord.
NullRecord == [null |-> TRUE]

Dot == <<".">>

DoubleUnderscore == <<"_", "_">>

Unknown == <<"U", "n", "k", "n", "o", "w", "n">>

\* ---------------------------------------------------------------- parseKey
\* /^\d{4}$/.test(s)
IsFourDigits(s) == Len(s) = 4 /\ \A i \in 1..4 : IsDigit(s[i])

FirstIndexWith(seq, Test(_)) ==
    LET hits == {i \in 1..Len(seq) : Test(seq[i])}
    IN IF hits = {} THEN 0 ELSE CHOOSE i \in hits : \A j \in hits : i <= j

HasDoubleUnderscore(p) == Includes(p, DoubleUnderscore)

\* id: `${sheetTitle}-${index}`
RecordId(sheetTitle, index) == sheetTitle \o <<"-">> \o NumToString(index)

\* let corePart = parts.find(p => p.includes('__'));
\* if (!corePart) corePart = parts[3] || parts[parts.length - 1];
CorePart(parts) ==
    LET f == FirstIndexWith(parts, HasDoubleUnderscore)
    IN IF f # 0 THEN parts[f]
       ELSE IF Len(parts) >= 4 /\ parts[4] # <<>> THEN parts[4]
       ELSE parts[Len(parts)]

\* Mutant: the last 4-digit sub-segment is taken, not the first.
BrandIdOf_last(segmentParts) ==
    LET hits == {i \in 1..Len(segmentParts) : IsFourDigits(segmentParts[i])}
    IN IF hits = {} THEN Unknown
       ELSE segmentParts[CHOOSE i \in hits : \A j \in hits : j <= i]

BrandIdOf(segmentParts) ==
    LET b == FirstIndexWith(segmentParts, IsFourDigits)
    IN IF b # 0 THEN segmentParts[b] ELSE Unknown

\* Mutant: the last sub-segment is the locale whatever it equals.
LocaleOf_always(segmentParts, templateName, brandId) ==
    segmentParts[Len(segmentParts)]

LocaleOf(segmentParts, templateName, brandId) ==
    LET possibleLocale == segmentParts[Len(segmentParts)]
    IN IF possibleLocale # brandId /\ possibleLocale # templateName
       THEN possibleLocale ELSE Null

\* Mutant: the degraded record is returned for one-segment keys only.
parseKey_minTwo(rawKey, sheetTitle, index) ==
    IF rawKey = <<>> \/ rawKey \in NonStrings THEN NullRecord
    ELSE LET parts == Split(rawKey, Dot)
             segmentParts == Split(CorePart(parts), DoubleUnderscore)
         IN IF Len(parts) < 2
            THEN [id |-> RecordId(sheetTitle, index),
                  originalKey |-> rawKey,
                  taskName |-> sheetTitle,
                  templateName |-> rawKey,
                  brandId |-> Unknown,
                  locale |-> Null,
                  rawParts |-> parts]
            ELSE [id |-> RecordId(sheetTitle, index),
                  originalKey |-> rawKey,
                  taskName |-> sheetTitle,
                  templateName |-> segmentParts[1],
                  brandId |-> BrandIdOf(segmentParts),
                  locale |-> LocaleOf(segmentParts, segmentParts[1],
                                      BrandIdOf(segmentParts)),
                  rawParts |-> parts]

\* parseKey(rawKey, sheetTitle, index)
parseKey(rawKey, sheetTitle, index) ==
    IF rawKey = <<>> \/ rawKey \in NonStrings THEN NullRecord
    ELSE LET parts == Split(rawKey, Dot)
         IN IF Len(parts) < 3
            THEN [id |-> RecordId(sheetTitle, index),
                  originalKey |-> rawKey,
                  taskName |-> sheetTitle,
                  templateName |-> rawKey,
                  brandId |-> Unknown,
                  locale |-> Null,
                  rawParts |-> parts]
            ELSE LET segmentParts == Split(CorePart(parts), DoubleUnderscore)
                     templateName == segmentParts[1]
                     brandId == BrandIdOf(segmentParts)
                 IN [id |-> RecordId(sheetTitle, index),
                     originalKey |-> rawKey,
                     taskName |-> sheetTitle,
                     templateName |-> templateName,
                     brandId |-> brandId,
                     locale |-> LocaleOf(segmentParts, templateName, brandId),
                     rawParts |-> parts]

\* -------------------------------------------------------- processSheetData
\* row[1] (column B); Undefined when the row is shorter.
KeyCell(row) == IF Len(row) >= 2 THEN row[2] ELSE Undefined

\* Mutant: a row whose key occurred in an earlier row is dropped.
RECURSIVE RowsFrom_dedup(_, _, _)
RowsFrom_dedup(sheetTitle, rows, from) ==
    IF from > Len(rows) THEN <<>>
    ELSE LET keyCell == KeyCell(rows[from])
             rest == RowsFrom_dedup(sheetTitle, rows, from + 1)
             seen == \E k \in 1..(from - 1) : KeyCell(rows[k]) = keyCell
         IN IF keyCell \in {Undefined, Null, <<>>} \/ seen THEN rest
            ELSE <<parseKey(keyCell, sheetTitle, from - 1)>> \o rest

\* rows.forEach((row, idx) => { if (keyCell) { parsed = parseKey(..., idx);
\* if (parsed) records.push(parsed) } }), from row number from on.
RECURSIVE RowsFrom(_, _, _)
RowsFrom(sheetTitle, rows, from) ==
    IF from > Len(rows) THEN <<>>
    ELSE LET keyCell == KeyCell(rows[from])
             rest == RowsFrom(sheetTitle, rows, from + 1)
             parsed == parseKey(keyCell, sheetTitle, from - 1)
         IN IF keyCell \in {Undefined, Null, <<>>} THEN rest
            ELSE IF parsed = NullRecord THEN rest
            ELSE <<parsed>> \o rest

processSheetData(sheetTitle, rows) == RowsFrom(sheetTitle, rows, 1)

\* ------------------------------------------------- JavaScript plain objects
\* A Record<string, T> is the sequence of its entries in Object.entries
\* order: array-index keys first, ascending by value, then the other string
\* keys in insertion order.
IsArrayIndex(k) ==
    /\ k # <<>>
    /\ \A i \in 1..Len(k) : IsDigit(k[i])
    /\ (Len(k) = 1 \/ k[1] # "0")
    /\ NumLess(k, <<"4", "2", "9", "4", "9", "6", "7", "2", "9", "5">>)

\* obj[k] = v
ObjSet(obj, k, v) ==
    IF \E i \in 1..Len(obj) : obj[i].key = k
    THEN [i \in 1..Len(obj) |->
            IF obj[i].key = k THEN [key |-> k, val |-> v] ELSE obj[i]]
    ELSE IF IsArrayIndex(k)
    THEN LET before == {i \in 1..Len(obj) :
                           /\ IsArrayIndex(obj[i].key)
                           /\ NumLess(obj[i].key, k)}
             n == Cardinality(before)
         IN SubSeq(obj, 1, n) \o <<[key |-> k, val |-> v]>>
               \o SubSeq(obj, n + 1, Len(obj))
    ELSE Append(obj, [key |-> k, val |-> v])

\* ------------------------------------------------------------ input data
\* Cells, keys and rows the sources may hold.
CellA == <<"x">>

KeyShort == <<"k">>

KeyFull == <<"a", ".", "b", ".", "T", "_", "_", "1", "2", "3", "4", "_", "_", "e">>

RowsSkipThenKey == << <<CellA>>, <<CellA, KeyShort>> >>

RowsKey == << <<CellA, KeyFull>> >>

RowsBlank == << <<CellA, <<>> >> >>

SheetS == <<"S">>

SheetB == <<"b">>

Sheet1 == <<"1">>

\* A decoded workbook: workbook.SheetNames in order, each with the row
\* matrix sheet_to_json yields for workbook.Sheets[name].
Workbooks ==
    { << [name |-> SheetS, rows |-> RowsSkipThenKey],
         [name |-> Sheet1, rows |-> RowsKey] >>,
      << [name |-> SheetS, rows |-> RowsBlank] >> }

\* What decoding one file (XLSX.read and sheet_to_json) can produce: the
\* workbook, or an exception.
DecodeFailed == [st |-> "failed", sheets |-> <<>>]

DecodeOutcomes == {[st |-> "ok", sheets |-> w] : w \in Workbooks} \cup {DecodeFailed}

\* The FileReader fails, or hands over no data: nothing is decoded.
Unreadable == [st |-> "unreadable", sheets |-> <<>>]

\* What reading one file can give.
ReadOutcomes == DecodeOutcomes \cup {Unreadable}

\* History entry of one source: its title and what it delivered.
Source(sourceTitle, outcome) ==
    [title |-> sourceTitle,
     st |-> IF outcome.st \in {"ok", "pending"} THEN outcome.st ELSE "failed",
     sheets |-> outcome.sheets]

NotYet == [st |-> "pending", sheets |-> <<>>]

Xlsx == <<".", "x", "l", "s", "x">>

Xls == <<".", "x", "l", "s">>

\* The files the user can pick (File.name, File.size).
FileUniverse ==
    { [name |-> <<"a">> \o Xlsx, size |-> 1],
      [name |-> <<"a">> \o Xlsx, size |-> 2],
      [name |-> <<"b">> \o Xls, size |-> 1],
      [name |-> <<"r", ".", "c", "s", "v">>, size |-> 1] }

\* file.name.replace(/\.[^/.]+$/, "")
FileTitle(name) ==
    LET dots == {i \in 1..Len(name) : name[i] = "."}
    IN IF dots = {} THEN name
       ELSE LET d == CHOOSE i \in dots : \A j \in dots : j <= i
            IN IF d < Len(name) /\ \A j \in (d + 1)..Len(name) : name[j] # "/"
               THEN SubSeq(name, 1, d - 1) ELSE name

\* Mutant: the extension is not tested.
HasExcelExtension_any(name) == TRUE

\* file.name.endsWith('.xlsx') || file.name.endsWith('.xls')
HasExcelExtension(name) == EndsWith(name, Xlsx) \/ EndsWith(name, Xls)

\* Sequences over S of length lo..hi.
SeqsOf(S, lo, hi) == UNION {[1..n -> S] : n \in lo..hi}

\* The FileList of one drop or one pick: one file, or two at once.
FileLists == SeqsOf(FileUniverse, 1, 2)

\* ------------------------------------------------ worker (parsingWorker.ts)
\* let corePart = parts.find(p => p.includes('__'));
\* if (!corePart) corePart = parts[3] || parts[parts.length - 1];
WorkerCorePart(parts) ==
    LET found == FirstIndexWith(parts, HasDoubleUnderscore)
    IN IF found # 0 THEN parts[found]
       ELSE IF Len(parts) >= 4 /\ parts[4] # <<>> THEN parts[4]
       ELSE parts[Len(parts)]

\* The worker's own copy of parseKey.
workerParseKey(rawKey, sheetTitle, index) ==
    IF rawKey = <<>> \/ rawKey \in NonStrings THEN NullRecord
    ELSE LET parts == Split(rawKey, Dot)
         IN IF Len(parts) < 3
            THEN [id |-> sheetTitle \o <<"-">> \o NumToString(index),
                  originalKey |-> rawKey,
                  taskName |-> sheetTitle,
                  templateName |-> rawKey,
                  brandId |-> Unknown,
                  locale |-> Null,
                  rawParts |-> parts]
            ELSE LET corePart == WorkerCorePart(parts)
                     segmentParts == Split(corePart, DoubleUnderscore)
                     templateName == segmentParts[1]
                     m == FirstIndexWith(segmentParts, IsFourDigits)
                     brandId == IF m # 0 THEN segmentParts[m] ELSE Unknown
                     possibleLocale == segmentParts[Len(segmentParts)]
                 IN [id |-> sheetTitle \o <<"-">> \o NumToString(index),
                     originalKey |-> rawKey,
                     taskName |-> sheetTitle,
                     templateName |-> templateName,
                     brandId |-> brandId,
                     locale |-> IF possibleLocale # brandId
                                   /\ possibleLocale # templateName
                                THEN possibleLocale ELSE Null,
                     rawParts |-> parts]

Separator == <<" ", ":", ":", " ">>

\* const uniqueTaskName = fileTitle + ' :: ' + sheetName;
UniqueTaskName(fileTitle, sheetName) == fileTitle \o Separator \o sheetName

\* rows.forEach((row, idx) => ...) of the worker, from row number from on.
RECURSIVE WorkerRowsFrom(_, _, _, _)
WorkerRowsFrom(fileTitle, sheetName, rows, from) ==
    IF from > Len(rows) THEN <<>>
    ELSE LET keyCell == KeyCell(rows[from])
             rest == WorkerRowsFrom(fileTitle, sheetName, rows, from + 1)
             parsed == workerParseKey(keyCell,
                                      UniqueTaskName(fileTitle, sheetName),
                                      from - 1)
         IN IF keyCell \in {Undefined, Null, <<>>} THEN rest
            ELSE IF parsed = NullRecord THEN rest
            ELSE <<parsed>> \o rest

\* workbook.SheetNames.forEach(sheetName => ...), from sheet number from on.
RECURSIVE WorkerSheetsFrom(_, _, _)
WorkerSheetsFrom(fileTitle, sheets, from) ==
    IF from > Len(sheets) THEN <<>>
    ELSE WorkerRowsFrom(fileTitle, sheets[from].name, sheets[from].rows, 1)
            \o WorkerSheetsFrom(fileTitle, sheets, from + 1)

\* self.onmessage of the worker: the message it posts back.
WorkerOnMessage(fileTitle, outcome) ==
    IF outcome.st = "ok"
    THEN [success |-> TRUE, records |-> WorkerSheetsFrom(fileTitle, outcome.sheets, 1)]
    ELSE [success |-> FALSE, records |-> <<>>]

\* ------------------------------------------- readExcelFile (main thread)
\* result[sheetName] = json, for the sheets from number from on.
RECURSIVE SheetsToObject(_, _, _)
SheetsToObject(obj, sheets, from) ==
    IF from > Len(sheets) THEN obj
    ELSE SheetsToObject(ObjSet(obj, sheets[from].name, sheets[from].rows),
                        sheets, from + 1)

Pending == [st |-> "pending", title |-> <<>>, data |-> <<>>]

Rejected == [st |-> "rejected", title |-> <<>>, data |-> <<>>]

\* Mutant: a failed read or decode resolves with no sheets instead of
\* rejecting.
readExcelFile_swallow(file, outcome) ==
    [st |-> "fulfilled", title |-> FileTitle(file.name),
     data |-> SheetsToObject(<<>>, outcome.sheets, 1)]

\* The promise readExcelFile(file) settles to, given what the decode gave.
readExcelFile(file, outcome) ==
    IF outcome.st = "ok"
    THEN [st |-> "fulfilled", title |-> FileTitle(file.name),
          data |-> SheetsToObject(<<>>, outcome.sheets, 1)]
    ELSE Rejected

\* ------------------------------------------------- merge and deferred parse
\* Object.entries(fileData.data).forEach(([sheetName, rows]) =>
\*    rawDataMap[`${fileData.title} :: ${sheetName}`] = rows)
RECURSIVE MergeEntries(_, _, _, _)
MergeEntries(map, fileTitle, entries, from) ==
    IF from > Len(entries) THEN map
    ELSE MergeEntries(ObjSet(map, UniqueTaskName(fileTitle, entries[from].key),
                             entries[from].val),
                      fileTitle, entries, from + 1)

\* results.forEach((result) => { if fulfilled: merge }), rawDataMap part.
RECURSIVE MergeResults(_, _, _)
MergeResults(map, res, from) ==
    IF from > Len(res) THEN map
    ELSE MergeResults(IF res[from].st = "fulfilled"
                      THEN MergeEntries(map, res[from].title, res[from].data, 1)
                      ELSE map,
                      res, from + 1)

\* results.forEach(...), successfulFiles part.
RECURSIVE SuccessfulTitles(_, _)
SuccessfulTitles(res, from) ==
    IF from > Len(res) THEN <<>>
    ELSE (IF res[from].st = "fulfilled" THEN <<res[from].title>> ELSE <<>>)
            \o SuccessfulTitles(res, from + 1)

LocalFiles == <<" ", "L", "o", "c", "a", "l", " ", "F", "i", "l", "e", "s">>

\* Mutant: the title is always the first surviving file's title.
MergedTitle_first(successful) == successful[1]

\* successfulFiles.length === 1 ? successfulFiles[0]
\*                              : `${successfulFiles.length} Local Files`
MergedTitle(successful) ==
    IF Len(successful) = 1 THEN successful[1]
    ELSE NumToString(Len(successful)) \o LocalFiles

\* Object.entries(rawDataMap).forEach(([sheetName, rows]) =>
\*    allRecords.push(...processSheetData(sheetName, rows)))
RECURSIVE ParseAll(_, _)
ParseAll(map, from) ==
    IF from > Len(map) THEN <<>>
    ELSE processSheetData(map[from].key, map[from].val) \o ParseAll(map, from + 1)

\* ------------------------------------------------------- cloud responses
CloudTitle == <<"G">>

\* What GET /spreadsheets/{id} can answer: not ok, or title and sheet list.
MetadataResponses ==
    {[ok |-> FALSE, title |-> <<>>, sheets |-> <<>>]}
       \cup {[ok |-> TRUE, title |-> CloudTitle, sheets |-> sh] :
                sh \in {<<>>, <<SheetS>>, <<SheetB, Sheet1>>}}

\* One element of valueRanges; values may be absent.
ValueRanges ==
    { [present |-> FALSE, values |-> <<>>],
      [present |-> TRUE, values |-> RowsSkipThenKey],
      [present |-> TRUE, values |-> RowsKey] }

\* What values:batchGet can answer for n requested ranges: not ok, a body
\* without valueRanges, or one range per requested sheet in request order.
ValuesResponses(n) ==
    {[ok |-> FALSE, hasRanges |-> FALSE, valueRanges |-> <<>>],
     [ok |-> TRUE, hasRanges |-> FALSE, valueRanges |-> <<>>]}
       \cup {[ok |-> TRUE, hasRanges |-> TRUE, valueRanges |-> vr] :
                vr \in [1..n -> ValueRanges]}

\* data.valueRanges.forEach((range, index) =>
\*    result[sheetNames[index]] = range.values || [])
RECURSIVE RangesToObject(_, _, _, _)
RangesToObject(obj, names, valueRanges, from) ==
    IF from > Len(valueRanges) THEN obj
    ELSE RangesToObject(
            ObjSet(obj, names[from],
                   IF valueRanges[from].present THEN valueRanges[from].values
                   ELSE <<>>),
            names, valueRanges, from + 1)

\* GoogleSheetService.fetchAllSheetValues: the map it resolves to.
fetchAllSheetValues(names, resp) ==
    IF resp.hasRanges THEN RangesToObject(<<>>, names, resp.valueRanges, 1)
    ELSE <<>>

\* ------------------------------------------------------------------ state
VARIABLES
    app,             \* which App component is running
    status,          \* useState<DataStatus>
    error,           \* useState<string | null>
    records,         \* useState<ParsedRecord[]>
    sheetTitle,      \* useState<string>
    files,           \* ConfigForm: useState<File[]> (selectedFile when "single")
    config,          \* the AppConfig handed to handleConnect
    pc,              \* where the run of handleConnect is suspended
    fileIdx,         \* worker app: position of the for..of loop (1-based)
    allRecords,      \* worker app: const allRecords
    successfulFiles, \* const successfulFiles
    workerMsg,       \* the message the worker has posted back
    results,         \* allSettled app: the file promises / settled results
    rawDataMap,      \* let rawDataMap
    title,           \* let title
    sheetNames,      \* cloud: const sheetNames
    statusLog,       \* history: the setStatus calls of the run
    decoded,         \* history: what each source of the run delivered
    inFlight,        \* history: files whose read or decode is under way
    decodeCtx,       \* history: contexts in which a spreadsheet was decoded
    bufferAt,        \* history: who holds the ArrayBuffer being processed
    requests,        \* history: network requests of the run and their answers
    searchTerm,      \* Dashboard: useState('') (inputValue, deferred)
    brandFilter,     \* Dashboard: useState('All')
    selectedTask,    \* Dashboard: useState('All')
    call,            \* parser: the function called and its arguments
    ret,             \* parser: what the main-thread function returned
    workerRet        \* parser: what the worker's copy returned

appState == <<status, error, records, sheetTitle>>

locals == <<config, fileIdx, allRecords, successfulFiles, workerMsg, results,
            rawDataMap, title, sheetNames>>

history == <<statusLog, decoded, inFlight, decodeCtx, bufferAt, requests>>

dashboard == <<searchTerm, brandFilter, selectedTask>>

parser == <<call, ret, workerRet>>

\* What no step of handleConnect or ConfigForm changes.
fixed == <<app, dashboard, parser>>

vars == <<app, appState, files, pc, locals, history, dashboard, parser>>

Apps == {"worker", "allSettled", "single"}

IDLE == "IDLE"

FETCHING_META == "FETCHING_META"

FETCHING_ROWS == "FETCHING_ROWS"

PARSING == "PARSING"

READY == "READY"

ERROR == "ERROR"

\* error === null
NoError == "null"

UnknownSheet == <<"U", "n", "k", "n", "o", "w", "n", " ", "S", "h", "e", "e", "t">>

NoConfig == [mode |-> "none", files |-> <<>>, apiKey |-> <<>>, spreadsheetId |-> <<>>]

NoMsg == [success |-> FALSE, records |-> <<>>]

\* No run of handleConnect is suspended: its locals do not exist.
NoLocals ==
    /\ config' = NoConfig
    /\ fileIdx' = 0
    /\ allRecords' = <<>>
    /\ successfulFiles' = <<>>
    /\ workerMsg' = NoMsg
    /\ results' = <<>>
    /\ rawDataMap' = <<>>
    /\ title' = UnknownSheet
    /\ sheetNames' = <<>>

\* The history describes the run in flight, or the last one until the user
\* next touches the form.
NoHistory ==
    /\ statusLog' = <<>>
    /\ decoded' = <<>>
    /\ inFlight' = {}
    /\ decodeCtx' = {}
    /\ bufferAt' = "none"
    /\ requests' = <<>>

\* 'All': the wildcard of the brand and task selections.
All == <<"A", "l", "l">>

\* The Dashboard is not mounted; its state has the useState initial values.
DashboardInit ==
    /\ searchTerm = <<>>
    /\ brandFilter = All
    /\ selectedTask = All

NoCall == [fn |-> "none", rawKey |-> <<>>, sheetTitle |-> <<>>, index |-> 0,
           rows |-> <<>>]

NoRet == [done |-> FALSE, parsed |-> NullRecord, corePart |-> <<>>,
          records |-> <<>>]

\* No parser function is being called on its own.
ParserIdle ==
    /\ call = NoCall
    /\ ret = NoRet
    /\ workerRet = NoRet

\* No file is selected and no run of handleConnect is suspended.
NoRun ==
    /\ files = <<>>
    /\ pc = "form"
    /\ config = NoConfig
    /\ fileIdx = 0
    /\ allRecords = <<>>
    /\ successfulFiles = <<>>
    /\ workerMsg = NoMsg
    /\ results = <<>>
    /\ rawDataMap = <<>>
    /\ title = UnknownSheet
    /\ sheetNames = <<>>
    /\ inFlight = {}
    /\ decodeCtx = {}
    /\ bufferAt = "none"

\* App as mounted: the useState initial values, no run, no history.
AppInit ==
    /\ status = IDLE
    /\ error = NoError
    /\ records = <<>>
    /\ sheetTitle = UnknownSheet
    /\ NoRun
    /\ statusLog = <<>>
    /\ decoded = <<>>
    /\ requests = <<>>

Init ==
    /\ app \in Apps
    /\ AppInit
    /\ DashboardInit
    /\ ParserIdle

\* Mutant: no loading overlay; the form stays on screen, its button enabled,
\* while a run is in flight.
FormShown_noOverlay == status # READY

\* ConfigForm is on screen and its submit button is enabled: App renders it
\* when status is neither READY nor a loading status.
FormShown == status \in {IDLE, ERROR}

\* ------------------------------------------------------------- ConfigForm
\* validateAndAddFiles(newFiles): the files it appends.
RECURSIVE ValidFiles(_, _, _)
ValidFiles(current, newFiles, from) ==
    IF from > Len(newFiles) THEN <<>>
    ELSE LET file == newFiles[from]
             isDuplicate == \E i \in 1..Len(current) :
                               /\ current[i].name = file.name
                               /\ current[i].size = file.size
         IN (IF HasExcelExtension(file.name) /\ ~isDuplicate
             THEN <<file>> ELSE <<>>)
               \o ValidFiles(current, newFiles, from + 1)

validateAndAddFiles(newFiles) ==
    /\ FormShown
    /\ app # "single"
    /\ LET validFiles == ValidFiles(files, newFiles, 1)
       IN /\ Len(files) + Len(validFiles) <= MaxFiles
          /\ files' = files \o validFiles
    /\ NoHistory
    /\ UNCHANGED <<fixed, appState, pc, locals>>

\* removeFile(indexToRemove)
removeFile(indexToRemove) ==
    /\ FormShown
    /\ app # "single"
    /\ indexToRemove \in 1..Len(files)
    /\ files' = SubSeq(files, 1, indexToRemove - 1)
                   \o SubSeq(files, indexToRemove + 1, Len(files))
    /\ NoHistory
    /\ UNCHANGED <<fixed, appState, pc, locals>>

\* validateAndSetFile(file) of the one-file form
validateAndSetFile(file) ==
    /\ FormShown
    /\ app = "single"
    /\ files' = IF HasExcelExtension(file.name) THEN <<file>> ELSE files
    /\ NoHistory
    /\ UNCHANGED <<fixed, appState, pc, locals>>

\* ---------------------------------------------------------- handleConnect
KeyInputs == {<<>>, <<"k">>}

IdInputs == {<<>>, <<"i">>}

\* Mutant: the catch handler sets the status and no message.
EndError_noMessage(message) ==
    /\ status' = ERROR
    /\ statusLog' = Append(statusLog, ERROR)
    /\ pc' = "form"
    /\ NoLocals
    /\ UNCHANGED <<error, records, sheetTitle>>

\* catch (e) { setError(message); setStatus(ERROR) }: the run is over.
EndError(message) ==
    /\ error' = message
    /\ status' = ERROR
    /\ statusLog' = Append(statusLog, ERROR)
    /\ pc' = "form"
    /\ NoLocals
    /\ UNCHANGED <<records, sheetTitle>>

\* Mutant: the run resets the status to IDLE when it has the records.
EndReady_resetsIdle(recs) ==
    /\ records' = recs
    /\ status' = IDLE
    /\ statusLog' = Append(statusLog, IDLE)
    /\ pc' = "form"
    /\ NoLocals
    /\ UNCHANGED error

\* setRecords(allRecords); setStatus(READY): the run is over.
EndReady(recs) ==
    /\ records' = recs
    /\ status' = READY
    /\ statusLog' = Append(statusLog, READY)
    /\ pc' = "form"
    /\ NoLocals
    /\ UNCHANGED error

\* Mutant: the deferred parse is scheduled without setStatus(PARSING).
DeferParse_noStatus(newTitle) ==
    /\ sheetTitle' = newTitle
    /\ pc' = "timer"
    /\ UNCHANGED <<error, records, status, statusLog>>

\* Mutant: the records are parsed and set when the deferred step is
\* scheduled, sheet data in hand.
DeferParse_setsRecords(newTitle) ==
    /\ sheetTitle' = newTitle
    /\ status' = PARSING
    /\ statusLog' = Append(statusLog, PARSING)
    /\ pc' = "timer"
    /\ records' = ParseAll(rawDataMap', 1)
    /\ UNCHANGED error

\* setSheetTitle(title); setStatus(PARSING); setTimeout(..., 100)
DeferParse(newTitle) ==
    /\ sheetTitle' = newTitle
    /\ status' = PARSING
    /\ statusLog' = Append(statusLog, PARSING)
    /\ pc' = "timer"
    /\ UNCHANGED <<error, records>>

\* handleSubmit (local tab) and handleConnect up to its first await.
\* The loading overlay replaces ConfigForm, whose state is lost.
SubmitLocal ==
    /\ FormShown
    /\ files # <<>>
    /\ config' = [mode |-> "local", files |-> files,
                  apiKey |-> <<>>, spreadsheetId |-> <<>>]
    /\ files' = <<>>
    /\ error' = NoError
    /\ status' = FETCHING_ROWS
    /\ statusLog' = <<FETCHING_META, FETCHING_ROWS>>
    /\ decoded' = [i \in 1..Len(files) |-> Source(FileTitle(files[i].name), NotYet)]
    /\ decodeCtx' = {}
    /\ bufferAt' = "none"
    /\ requests' = <<>>
    /\ IF app = "worker"
       THEN /\ pc' = "read"
            /\ fileIdx' = 1
            /\ inFlight' = {1}
            /\ results' = <<>>
       ELSE IF app = "allSettled"
       THEN /\ pc' = "settle"
            /\ fileIdx' = 0
            /\ inFlight' = 1..Len(files)
            /\ results' = [i \in 1..Len(files) |-> Pending]
       ELSE /\ pc' = "readOne"
            /\ fileIdx' = 0
            /\ inFlight' = {1}
            /\ results' = <<>>
    /\ UNCHANGED <<fixed, records, sheetTitle, allRecords, successfulFiles,
                   workerMsg, rawDataMap, title, sheetNames>>

\* handleSubmit (cloud tab) and handleConnect up to its first await.  With
\* an empty key or id the run fails before anything else is rendered.
SubmitCloud(apiKey, spreadsheetId) ==
    /\ FormShown
    /\ decoded' = <<>>
    /\ decodeCtx' = {}
    /\ bufferAt' = "none"
    /\ inFlight' = {}
    /\ IF apiKey # <<>> /\ spreadsheetId # <<>>
       THEN /\ config' = [mode |-> "cloud", files |-> <<>>,
                          apiKey |-> apiKey, spreadsheetId |-> spreadsheetId]
            /\ error' = NoError
            /\ status' = FETCHING_META
            /\ statusLog' = <<FETCHING_META>>
            /\ requests' = <<"metadata">>
            /\ pc' = "meta"
            /\ files' = <<>>
       ELSE /\ config' = NoConfig
            /\ error' = "Invalid Configuration"
            /\ status' = ERROR
            /\ statusLog' = <<FETCHING_META, ERROR>>
            /\ requests' = <<>>
            /\ pc' = "form"
            /\ files' = files
    /\ UNCHANGED <<fixed, records, sheetTitle, fileIdx, allRecords,
                   successfulFiles, workerMsg, results, rawDataMap, title,
                   sheetNames>>

\* successfulFiles.length === 0
NoneSucceeded(succ) == Len(succ) = 0

\* Mutant: the empty sheet list is not detected.
NoSheets_never(names) == FALSE

\* sheetNames.length === 0
NoSheets(names) == Len(names) = 0

\* Worker app: the rest of the for..of loop after file fileIdx is done, with
\* the lists as they stand; after the last file, the end of the local branch.
WorkerNext(recs, succ) ==
    IF fileIdx < Len(config.files)
    THEN /\ allRecords' = recs
         /\ successfulFiles' = succ
         /\ workerMsg' = NoMsg
         /\ fileIdx' = fileIdx + 1
         /\ inFlight' = {fileIdx + 1}
         /\ pc' = "read"
         /\ UNCHANGED <<appState, statusLog, config, results, rawDataMap,
                        title, sheetNames>>
    ELSE /\ inFlight' = {}
         /\ IF NoneSucceeded(succ)
            THEN /\ EndError("Failed to read all uploaded files.")
            ELSE IF Len(recs) = 0
            THEN /\ EndError("No valid keys found in the source data.")
            ELSE /\ sheetTitle' = MergedTitle(succ)
                 /\ EndReady(recs)

\* Worker app: readFileAsBuffer settles; on success processFileInWorker
\* posts the buffer to a new worker, transferring it.
WorkerReadDone(ok) ==
    /\ app = "worker"
    /\ pc = "read"
    /\ IF ok
       THEN /\ pc' = "worker"
            /\ bufferAt' = "worker"
            /\ UNCHANGED <<appState, locals, statusLog, decoded, inFlight>>
       ELSE /\ bufferAt' = "none"
            /\ decoded' = [decoded EXCEPT
                  ![fileIdx] = Source(decoded[fileIdx].title, Unreadable)]
            /\ WorkerNext(allRecords, successfulFiles)
    /\ UNCHANGED <<fixed, files, decodeCtx, requests>>

\* Worker app: self.onmessage in the worker decodes and parses, then posts
\* the result back.
WorkerRun(outcome) ==
    /\ app = "worker"
    /\ pc = "worker"
    /\ decodeCtx' = decodeCtx \cup {"worker"}
    /\ decoded' = [decoded EXCEPT
          ![fileIdx] = Source(decoded[fileIdx].title, outcome)]
    /\ workerMsg' = WorkerOnMessage(FileTitle(config.files[fileIdx].name), outcome)
    /\ pc' = "reply"
    /\ UNCHANGED <<fixed, appState, files, config, fileIdx, allRecords,
                   successfulFiles, results, rawDataMap, title, sheetNames,
                   statusLog, inFlight, bufferAt, requests>>

\* Mutant: worker.onmessage ignores a failure message; the promise of that
\* file stays pending.
WorkerReply_dropsFailure ==
    /\ app = "worker"
    /\ pc = "reply"
    /\ workerMsg.success
    /\ bufferAt' = "none"
    /\ WorkerNext(allRecords \o workerMsg.records,
                  Append(successfulFiles,
                         FileTitle(config.files[fileIdx].name)))
    /\ UNCHANGED <<fixed, files, decoded, decodeCtx, requests>>

\* Worker app: worker.onmessage on the main thread settles the promise and
\* terminates the worker; the loop body finishes.
WorkerReply ==
    /\ app = "worker"
    /\ pc = "reply"
    /\ bufferAt' = "none"
    /\ IF workerMsg.success
       THEN WorkerNext(allRecords \o workerMsg.records,
                       Append(successfulFiles,
                              FileTitle(config.files[fileIdx].name)))
       ELSE WorkerNext(allRecords, successfulFiles)
    /\ UNCHANGED <<fixed, files, decoded, decodeCtx, requests>>

\* allSettled app: the FileReader of file i fires; onload decodes on the
\* main thread and settles the promise of readExcelFile.
FileLoad(i, outcome) ==
    /\ app = "allSettled"
    /\ pc = "settle"
    /\ i \in 1..Len(results)
    /\ results[i].st = "pending"
    /\ results' = [results EXCEPT ![i] = readExcelFile(config.files[i], outcome)]
    /\ decoded' = [decoded EXCEPT ![i] = Source(decoded[i].title, outcome)]
    /\ decodeCtx' = IF outcome = Unreadable THEN decodeCtx
                    ELSE decodeCtx \cup {"main"}
    /\ inFlight' = inFlight \ {i}
    /\ UNCHANGED <<fixed, appState, files, config, pc, fileIdx, allRecords,
                   successfulFiles, workerMsg, rawDataMap, title, sheetNames,
                   statusLog, bufferAt, requests>>

\* allSettled app: Promise.allSettled resolves; merge, title, defer parse.
SettledDone ==
    /\ app = "allSettled"
    /\ pc = "settle"
    /\ \A i \in 1..Len(results) : results[i].st # "pending"
    /\ LET succ == SuccessfulTitles(results, 1)
       IN IF NoneSucceeded(succ)
          THEN EndError("Failed to read all uploaded files.")
          ELSE /\ rawDataMap' = MergeResults(<<>>, results, 1)
               /\ successfulFiles' = succ
               /\ title' = MergedTitle(succ)
               /\ DeferParse(MergedTitle(succ))
               /\ UNCHANGED <<config, fileIdx, allRecords, workerMsg,
                              results, sheetNames>>
    /\ UNCHANGED <<fixed, files, decoded, inFlight, decodeCtx, bufferAt, requests>>

\* single app: the FileReader fires, readExcelFile settles and the run
\* continues to the deferred parse.
SingleLoad(outcome) ==
    /\ app = "single"
    /\ pc = "readOne"
    /\ decoded' = [decoded EXCEPT ![1] = Source(decoded[1].title, outcome)]
    /\ decodeCtx' = IF outcome = Unreadable THEN decodeCtx
                    ELSE decodeCtx \cup {"main"}
    /\ inFlight' = {}
    /\ LET result == readExcelFile(config.files[1], outcome)
       IN IF result.st = "fulfilled"
          THEN /\ rawDataMap' = result.data
               /\ title' = result.title
               /\ DeferParse(result.title)
               /\ UNCHANGED <<config, fileIdx, allRecords, successfulFiles,
                              workerMsg, results, sheetNames>>
          ELSE EndError("Failed to read file")
    /\ UNCHANGED <<fixed, files, bufferAt, requests>>

\* The message of the error thrown when nothing was parsed, as the deferred
\* step of each App reports it.
EmptyMessage ==
    IF app = "worker" THEN "No valid keys found."
    ELSE "Parsing error: No valid keys found in the source data."

\* Mutant: no deferred step throws on an empty record list.
ChecksEmpty_never == FALSE

\* Whether the deferred step throws on an empty record list.
ChecksEmpty == app # "single"

\* The setTimeout callback: parse every entry of rawDataMap.
TimerFire ==
    /\ pc = "timer"
    /\ LET parsed == ParseAll(rawDataMap, 1)
       IN IF ChecksEmpty /\ Len(parsed) = 0
          THEN EndError(EmptyMessage)
          ELSE /\ EndReady(parsed)
               /\ UNCHANGED sheetTitle
    /\ UNCHANGED <<fixed, files, decoded, inFlight, decodeCtx, bufferAt, requests>>

\* The sheets of a cloud spreadsheet as a source: the metadata sheet list
\* with the rows the values response holds for each.
CloudSheets(names, resp) ==
    IF resp.hasRanges
    THEN [i \in 1..Len(names) |->
            [name |-> names[i],
             rows |-> IF resp.valueRanges[i].present
                      THEN resp.valueRanges[i].values ELSE <<>>]]
    ELSE <<>>

\* History: what the metadata request was answered with.
MetaAnswer(resp) ==
    IF ~resp.ok THEN "metadata failed"
    ELSE IF Len(resp.sheets) = 0 THEN "metadata empty"
    ELSE "metadata ok"

\* Cloud: fetchMetadata settles.
MetaResponse(resp) ==
    /\ pc = "meta"
    /\ IF ~resp.ok
       THEN /\ EndError("Failed to fetch spreadsheet metadata")
            /\ requests' = Append(requests, MetaAnswer(resp))
       ELSE IF NoSheets(resp.sheets)
       THEN /\ EndError("No sheets found in this spreadsheet.")
            /\ requests' = Append(requests, MetaAnswer(resp))
       ELSE /\ title' = resp.title
            /\ sheetNames' = resp.sheets
            /\ status' = FETCHING_ROWS
            /\ statusLog' = Append(statusLog, FETCHING_ROWS)
            /\ requests' = requests \o <<MetaAnswer(resp), "values">>
            /\ pc' = "values"
            /\ UNCHANGED <<error, records, sheetTitle, config, fileIdx,
                           allRecords, successfulFiles, workerMsg, results,
                           rawDataMap>>
    /\ UNCHANGED <<fixed, files, decoded, inFlight, decodeCtx, bufferAt>>

\* Mutant: a failed values request is issued a second time.
ValuesResponse_retry(resp) ==
    /\ pc = "values"
    /\ IF ~resp.ok
       THEN IF Len(requests) < 5
            THEN /\ requests' = requests \o <<"values failed", "values">>
                 /\ UNCHANGED <<appState, locals, statusLog, pc, decoded>>
            ELSE /\ EndError("Failed to fetch cell data")
                 /\ requests' = Append(requests, "values failed")
                 /\ UNCHANGED decoded
       ELSE /\ rawDataMap' = fetchAllSheetValues(sheetNames, resp)
            /\ decoded' = <<[title |-> title, st |-> "ok",
                             sheets |-> CloudSheets(sheetNames, resp)]>>
            /\ requests' = Append(requests, "values ok")
            /\ DeferParse(title)
            /\ UNCHANGED <<config, fileIdx, allRecords, successfulFiles,
                           workerMsg, results, title, sheetNames>>
    /\ UNCHANGED <<fixed, files, inFlight, decodeCtx, bufferAt>>

\* Cloud: fetchAllSheetValues settles.
ValuesResponse(resp) ==
    /\ pc = "values"
    /\ IF ~resp.ok
       THEN /\ EndError("Failed to fetch cell data")
            /\ requests' = Append(requests, "values failed")
            /\ UNCHANGED decoded
       ELSE /\ rawDataMap' = fetchAllSheetValues(sheetNames, resp)
            /\ decoded' = <<[title |-> title, st |-> "ok",
                             sheets |-> CloudSheets(sheetNames, resp)]>>
            /\ requests' = Append(requests, "values ok")
            /\ DeferParse(title)
            /\ UNCHANGED <<config, fileIdx, allRecords, successfulFiles,
                           workerMsg, results, title, sheetNames>>
    /\ UNCHANGED <<fixed, files, inFlight, decodeCtx, bufferAt>>

Next ==
    \/ \E newFiles \in FileLists : validateAndAddFiles(newFiles)
    \/ \E i \in 1..MaxFiles : removeFile(i)
    \/ \E file \in FileUniverse : validateAndSetFile(file)
    \/ SubmitLocal
    \/ \E k \in KeyInputs, id \in IdInputs : SubmitCloud(k, id)
    \/ \E ok \in BOOLEAN : WorkerReadDone(ok)
    \/ \E o \in DecodeOutcomes : WorkerRun(o)
    \/ WorkerReply
    \/ \E i \in 1..MaxFiles, o \in ReadOutcomes : FileLoad(i, o)
    \/ SettledDone
    \/ \E o \in ReadOutcomes : SingleLoad(o)
    \/ TimerFire
    \/ \E resp \in MetadataResponses : MetaResponse(resp)
    \/ \E resp \in ValuesResponses(Len(sheetNames)) : ValuesResponse(resp)

Spec == Init /\ [][Next]_vars

\* The steps a run in flight waits for from outside: a file read, a worker
\* decode or a network request settles.
RunStep ==
    \/ \E ok \in BOOLEAN : WorkerReadDone(ok)
    \/ \E o \in DecodeOutcomes : WorkerRun(o)
    \/ WorkerReply
    \/ \E i \in 1..MaxFiles, o \in ReadOutcomes : FileLoad(i, o)
    \/ \E o \in ReadOutcomes : SingleLoad(o)
    \/ \E resp \in MetadataResponses : MetaResponse(resp)
    \/ \E resp \in ValuesResponses(Len(sheetNames)) : ValuesResponse(resp)

\* The step of SettledDone, by its guard and where it leaves the run: with
\* every promise settled, the continuation of Promise.allSettled runs.
SettledStep ==
    /\ pc = "settle"
    /\ \A i \in 1..Len(results) : results[i].st # "pending"
    /\ pc' \in {"timer", "form"}

\* The step of TimerFire, by its guard and where it leaves the run: the
\* callback of setTimeout runs.
TimerStep == pc = "timer" /\ pc' = "form"

\* The program when every read, decode and request eventually completes or
\* fails, every settled promise has its continuation run and every timer
\* eventually fires.
LiveSpec ==
    /\ Init
    /\ [][Next]_vars
    /\ WF_vars(RunStep)
    /\ WF_pc(SettledStep)
    /\ WF_pc(TimerStep)

\* ========================================================= parser on its own
\* parseKey and processSheetData (and the worker's copies of them) called
\* on their own, on keys and row matrices drawn from the sets below.

\* Largest number of dot-segments in front of the core segment of a key.
MaxPrefix == 3

\* Largest number of rows of a sheet handed to processSheetData.
MaxRows == 3

\* segs.join(sep)
RECURSIVE Join(_, _)
Join(segs, sep) ==
    IF Len(segs) = 1 THEN segs[1]
    ELSE segs[1] \o sep \o Join(Tail(segs), sep)

\* Dot-segments in front of the core information: plain, empty, or
\* themselves holding "__".
PrefixSegments == {<<"a">>, <<>>, <<"p", "_", "_", "q">>}

\* Core segments: TemplateName__type__BrandID__locale and what users type
\* instead.
CoreSegments ==
    { <<>>,
      <<"T">>,
      <<"T", "_", "_", "t", "_", "_", "1", "2", "3", "4", "_", "_", "e", "_", "U">>,
      <<"T", "_", "_", "1", "2", "3", "4">>,
      <<"T", "_", "_", "x">>,
      <<"_", "_", "1", "2", "3", "4">>,
      <<"1", "2", "3", "4", "_", "_", "5", "6", "7", "8">>,
      <<"T", "_", "_", "1", "2", "3", "4", "5">>,
      <<"T", "_", "_", "U", "n", "k", "n", "o", "w", "n">>,
      <<"T", "_", "_", "_", "1", "2", "3", "4">> }

\* Dot-segments after the core segment: none, a plain one, one with "__".
Suffixes == {<<>>, << <<"e">> >>, << <<"z", "_", "_", "9", "9", "9", "9">> >>}

\* The raw keys parseKey is called with: dotted strings, and values that
\* are not strings.
RawKeys ==
    {Join(pre \o <<core>> \o suf, Dot) :
        pre \in SeqsOf(PrefixSegments, 0, MaxPrefix),
        core \in CoreSegments,
        suf \in Suffixes}
      \cup NonStrings

\* A degraded key (one dot-segment).
KeyDegraded == <<"T", "_", "_", "x">>

\* The rows a sheet may hold: empty, without column B, with an empty cell
\* in column B, with a key in column B.
RowKinds ==
    { <<>>, <<CellA>>, <<CellA, <<>> >>, <<CellA, KeyFull>>,
      <<CellA, KeyDegraded, CellA>> }

RowMatrices == SeqsOf(RowKinds, 0, MaxRows)

\* The row indexes parseKey is called with.
RowIndexes == {0, 10}

ParserCalls ==
    {[fn |-> "parseKey", rawKey |-> k, fileTitle |-> <<"a">>,
      sheetName |-> SheetS, index |-> i, rows |-> <<>>] :
        k \in RawKeys, i \in RowIndexes}
      \cup {[fn |-> "processSheetData", rawKey |-> <<>>, fileTitle |-> <<"a">>,
              sheetName |-> SheetS, index |-> 0, rows |-> m] :
                m \in RowMatrices}

\* One function is about to be called.
ParserInit ==
    /\ app = "worker"
    /\ AppInit
    /\ DashboardInit
    /\ call \in ParserCalls
    /\ ret = NoRet
    /\ workerRet = NoRet

\* The sheetTitle argument: the task name handleConnect builds for a sheet
\* of a local file.
CallTitle == UniqueTaskName(call.fileTitle, call.sheetName)

\* The corePart local of a call of parseKey that gets that far.
CoreOfCall(Core(_)) ==
    IF call.rawKey = <<>> \/ call.rawKey \in NonStrings THEN <<>>
    ELSE IF Len(Split(call.rawKey, Dot)) < 3 THEN <<>>
    ELSE Core(Split(call.rawKey, Dot))

\* parseKey (part_004) returns.
ParseKeyReturns ==
    /\ call.fn = "parseKey"
    /\ ~ret.done
    /\ ret' = [done |-> TRUE,
               parsed |-> parseKey(call.rawKey, CallTitle, call.index),
               corePart |-> CoreOfCall(CorePart),
               records |-> <<>>]
    /\ UNCHANGED <<app, appState, files, pc, locals, history, dashboard,
                   call, workerRet>>

\* The worker's parseKey returns.
WorkerParseKeyReturns ==
    /\ call.fn = "parseKey"
    /\ ~workerRet.done
    /\ workerRet' = [done |-> TRUE,
                     parsed |-> workerParseKey(call.rawKey, CallTitle, call.index),
                     corePart |-> CoreOfCall(WorkerCorePart),
                     records |-> <<>>]
    /\ UNCHANGED <<app, appState, files, pc, locals, history, dashboard,
                   call, ret>>

\* processSheetData (part_004) returns.
ProcessSheetDataReturns ==
    /\ call.fn = "processSheetData"
    /\ ~ret.done
    /\ ret' = [done |-> TRUE, parsed |-> NullRecord, corePart |-> <<>>,
               records |-> processSheetData(CallTitle, call.rows)]
    /\ UNCHANGED <<app, appState, files, pc, locals, history, dashboard,
                   call, workerRet>>

\* The worker's row loop over one sheet ends.
WorkerRowLoopReturns ==
    /\ call.fn = "processSheetData"
    /\ ~workerRet.done
    /\ workerRet' = [done |-> TRUE, parsed |-> NullRecord, corePart |-> <<>>,
                     records |-> WorkerRowsFrom(call.fileTitle, call.sheetName,
                                                call.rows, 1)]
    /\ UNCHANGED <<app, appState, files, pc, locals, history, dashboard,
                   call, ret>>

ParserNext ==
    \/ ParseKeyReturns
    \/ WorkerParseKeyReturns
    \/ ProcessSheetDataReturns
    \/ WorkerRowLoopReturns

ParserSpec == ParserInit /\ [][ParserNext]_vars

\* ================================================================ Dashboard
\* The Dashboard App renders when the status is READY, with data = records.
\* Its two versions (part_001 66-267 and 278-518) filter and group alike;
\* the first does both in filteredGroups and skips the text test for an
\* empty term.

\* Largest number of rows of a sheet of the spreadsheets shown.
MaxSheetRows == 2

UpperCase == <<"A", "B", "C", "D", "E", "F", "G", "H", "I", "J", "K", "L", "M",
               "N", "O", "P", "Q", "R", "S", "T", "U", "V", "W", "X", "Y", "Z">>

LowerCase == <<"a", "b", "c", "d", "e", "f", "g", "h", "i", "j", "k", "l", "m",
               "n", "o", "p", "q", "r", "s", "t", "u", "v", "w", "x", "y", "z">>

\* String.prototype.toLowerCase on the characters the keys use.
ToLowerCase(str) ==
    [i \in 1..Len(str) |->
        IF \E u \in 1..26 : UpperCase[u] = str[i]
        THEN LowerCase[CHOOSE u \in 1..26 : UpperCase[u] = str[i]]
        ELSE str[i]]

\* item.templateName.toLowerCase().includes(lowerTerm) ||
\* item.originalKey.toLowerCase().includes(lowerTerm)
MatchesSearch(item, lowerTerm) ==
    \/ Includes(ToLowerCase(item.templateName), lowerTerm)
    \/ Includes(ToLowerCase(item.originalKey), lowerTerm)

\* brandFilter === 'All' || item.brandId === brandFilter
MatchesBrand(item) == brandFilter = All \/ item.brandId = brandFilter

\* selectedTask === 'All' || item.taskName === selectedTask
MatchesTask(item) == selectedTask = All \/ item.taskName = selectedTask

\* data.filter(item => matchesSearch && matchesBrand && matchesTask), from
\* item number from on.
RECURSIVE FilterFrom(_, _)
FilterFrom(data, from) ==
    IF from > Len(data) THEN <<>>
    ELSE (IF /\ MatchesSearch(data[from], ToLowerCase(searchTerm))
             /\ MatchesBrand(data[from])
             /\ MatchesTask(data[from])
          THEN <<data[from]>> ELSE <<>>)
            \o FilterFrom(data, from + 1)

\* The same with the first version's test: !lowerTerm || ...
RECURSIVE FilterDeferredFrom(_, _)
FilterDeferredFrom(data, from) ==
    IF from > Len(data) THEN <<>>
    ELSE (IF /\ \/ ToLowerCase(searchTerm) = <<>>
                \/ MatchesSearch(data[from], ToLowerCase(searchTerm))
             /\ MatchesBrand(data[from])
             /\ MatchesTask(data[from])
          THEN <<data[from]>> ELSE <<>>)
            \o FilterDeferredFrom(data, from + 1)

\* const filteredData = useMemo(...)
filteredData == FilterFrom(records, 1)

\* Mutant: the groups are keyed by the template name alone.
GroupKey_templateOnly(item) == item.templateName \o DoubleUnderscore

\* const key = `${item.templateName}__${item.brandId}`
GroupKey(item) == item.templateName \o DoubleUnderscore \o item.brandId

\* if (!groups[key]) groups[key] = []; groups[key].push(item), for the items
\* from number from on.
RECURSIVE GroupFrom(_, _, _)
GroupFrom(groups, items, from) ==
    IF from > Len(items) THEN groups
    ELSE LET key == GroupKey(items[from])
             there == {g \in 1..Len(groups) : groups[g].key = key}
             started == IF there = {} THEN ObjSet(groups, key, <<>>) ELSE groups
         IN GroupFrom([g \in 1..Len(started) |->
                          IF started[g].key = key
                          THEN [key |-> key,
                                val |-> Append(started[g].val, items[from])]
                          ELSE started[g]],
                      items, from + 1)

\* Object.entries(groupedResults), as the second version renders it.
groupedResults == GroupFrom(<<>>, filteredData, 1)

\* const filteredGroups = useMemo(...) of the first version.
filteredGroups == GroupFrom(<<>>, FilterDeferredFrom(records, 1), 1)

\* Array.from(new Set(data.map(d => d.brandId))): the option values.
uniqueBrands == {records[i].brandId : i \in 1..Len(records)}

uniqueTasks == {records[i].taskName : i \in 1..Len(records)}

\* Mutant: the statistics are computed over the filtered records.
stats_filtered ==
    [totalKeys |-> Len(filteredData),
     totalTasks |->
        Cardinality({filteredData[i].taskName : i \in 1..Len(filteredData)}),
     uniqueBrands |->
        Cardinality({filteredData[i].brandId : i \in 1..Len(filteredData)}),
     uniqueTemplates |->
        Cardinality({filteredData[i].templateName :
                        i \in 1..Len(filteredData)})]

\* const stats = useMemo(...): sizes of the Sets over the whole data.
stats ==
    [totalKeys |-> Len(records),
     totalTasks |-> Cardinality({records[i].taskName : i \in 1..Len(records)}),
     uniqueBrands |->
        Cardinality({records[i].brandId : i \in 1..Len(records)}),
     uniqueTemplates |->
        Cardinality({records[i].templateName : i \in 1..Len(records)})]

\* counts[d.brandId] = (counts[d.brandId] || 0) + 1, for the records from
\* number from on; counts is a plain object.
RECURSIVE CountFrom(_, _, _)
CountFrom(counts, data, from) ==
    IF from > Len(data) THEN counts
    ELSE LET k == data[from].brandId
             old == IF \E i \in 1..Len(counts) : counts[i].key = k
                    THEN counts[CHOOSE i \in 1..Len(counts) : counts[i].key = k].val
                    ELSE 0
         IN CountFrom(ObjSet(counts, k, old + 1), data, from + 1)

\* .sort((a, b) => b.value - a.value): Array.prototype.sort is stable, so
\* entries of equal value keep their order.
SortByValue(entries) ==
    LET before(i, j) ==
            \/ entries[i].value > entries[j].value
            \/ entries[i].value = entries[j].value /\ i < j
        rank(i) == 1 + Cardinality({j \in 1..Len(entries) : before(j, i)})
    IN [n \in 1..Len(entries) |->
           entries[CHOOSE i \in 1..Len(entries) : rank(i) = n]]

\* The length of the ranking: .slice(0, 5).
TopBrands == 5

\* const chartData = useMemo(...)
chartData ==
    LET counts == CountFrom(<<>>, records, 1)
        entries == [i \in 1..Len(counts) |->
                       [name |-> counts[i].key, value |-> counts[i].val]]
        sorted == SortByValue(entries)
    IN SubSeq(sorted, 1, IF Len(sorted) < TopBrands THEN Len(sorted)
                         ELSE TopBrands)

\* A key of the same template as KeyFull under another brand.
KeyOtherBrand == <<"a", ".", "b", ".", "T", "_", "_", "5", "6", "7", "8">>

DashboardKeys == {KeyFull, KeyOtherBrand, KeyDegraded}

\* The row matrices of the sheets shown: a key in column B of every row.
DashboardRows ==
    {[i \in 1..Len(ks) |-> <<CellA, ks[i]>>] :
        ks \in SeqsOf(DashboardKeys, 1, MaxSheetRows)}

\* Sheet names of the spreadsheets shown; a sheet may be called "All".
DashboardSheetNames == {SheetS, All}

\* The spreadsheets shown: one sheet, or two with different names, the
\* second of one row.
Spreadsheets ==
    {<<[name |-> n, rows |-> r]>> :
        n \in DashboardSheetNames, r \in DashboardRows}
      \cup UNION {{<<[name |-> n1, rows |-> r1], [name |-> n2, rows |-> r2]>> :
                      n2 \in DashboardSheetNames \ {n1},
                      r1 \in DashboardRows,
                      r2 \in {r \in DashboardRows : Len(r) = 1}} :
                   n1 \in DashboardSheetNames}

\* What the user may type into the search box.
SearchTerms == {<<>>, <<"t">>, <<"5", "6", "7", "8">>, <<"X">>}

\* A cloud run over the spreadsheet has ended in READY: App renders the
\* Dashboard with the records of the run.
DashboardShows(spreadsheet) ==
    /\ app = "worker"
    /\ status = READY
    /\ error = NoError
    /\ records = ParseAll(SheetsToObject(<<>>, spreadsheet, 1), 1)
    /\ sheetTitle = CloudTitle
    /\ NoRun
    /\ statusLog = <<FETCHING_META, FETCHING_ROWS, PARSING, READY>>
    /\ decoded = <<[title |-> CloudTitle, st |-> "ok", sheets |-> spreadsheet]>>
    /\ requests = <<"metadata", "metadata ok", "values", "values ok">>
    /\ DashboardInit
    /\ ParserIdle

DashboardStart == \E spreadsheet \in Spreadsheets : DashboardShows(spreadsheet)

\* onChange of the search box (the first version defers the value).
setSearchTerm(value) ==
    /\ status = READY
    /\ searchTerm' = value
    /\ UNCHANGED <<app, appState, files, pc, locals, history, brandFilter,
                   selectedTask, parser>>

\* onChange of the brand select: 'All' or one of uniqueBrands.
setBrandFilter(value) ==
    /\ status = READY
    /\ value \in {All} \cup uniqueBrands
    /\ brandFilter' = value
    /\ UNCHANGED <<app, appState, files, pc, locals, history, searchTerm,
                   selectedTask, parser>>

\* onChange of the task select: 'All' or one of uniqueTasks.
setSelectedTask(value) ==
    /\ status = READY
    /\ value \in {All} \cup uniqueTasks
    /\ selectedTask' = value
    /\ UNCHANGED <<app, appState, files, pc, locals, history, searchTerm,
                   brandFilter, parser>>

DashboardNext ==
    \/ \E value \in SearchTerms : setSearchTerm(value)
    \/ \E value \in {All} \cup uniqueBrands : setBrandFilter(value)
    \/ \E value \in {All} \cup uniqueTasks : setSelectedTask(value)

DashboardSpec == DashboardStart /\ [][DashboardNext]_vars

\* ================================================================ claims
\* A run has ended and its history is still held.
RunOver == pc = "form" /\ statusLog # <<>>

\* The run described by the history read local files.
LocalRun == decoded # <<>> /\ ~(\E i \in 1..Len(requests) : requests[i] = "metadata")

\* The run described by the history talked to the cloud API.
CloudRun == \E i \in 1..Len(requests) : requests[i] = "metadata"

\* The records the sheets of one source hold, sheet by sheet in the order
\* given and row by row, with task names prefix + sheet name.
RECURSIVE RecordsOfSheets(_, _, _)
RecordsOfSheets(prefix, sheets, from) ==
    IF from > Len(sheets) THEN <<>>
    ELSE processSheetData(prefix \o sheets[from].name, sheets[from].rows)
            \o RecordsOfSheets(prefix, sheets, from + 1)

\* The records of one source: local sources namespace the sheet name with
\* the file title, the cloud source does not.
RecordsOfSource(src, isLocal) ==
    IF src.st # "ok" THEN <<>>
    ELSE RecordsOfSheets(IF isLocal THEN src.title \o Separator ELSE <<>>,
                         src.sheets, 1)

\* The records of all sources that succeeded, in source order.
RECURSIVE RecordsOfSources(_, _, _)
RecordsOfSources(srcs, isLocal, from) ==
    IF from > Len(srcs) THEN <<>>
    ELSE RecordsOfSource(srcs[from], isLocal)
            \o RecordsOfSources(srcs, isLocal, from + 1)

Expected == RecordsOfSources(decoded, LocalRun, 1)

Occurrences(seq, x) == Cardinality({i \in 1..Len(seq) : seq[i] = x})

Elements(seq) == {seq[i] : i \in 1..Len(seq)}

\* The two sequences hold the same elements the same number of times.
SameBag(a, b) ==
    \A x \in Elements(a) \cup Elements(b) : Occurrences(a, x) = Occurrences(b, x)

SomeFailed == \E i \in 1..Len(decoded) : decoded[i].st = "failed"

SomeYielded ==
    \E i \in 1..Len(decoded) : RecordsOfSource(decoded[i], TRUE) # <<>>

AllFailed == \A i \in 1..Len(decoded) : decoded[i].st = "failed"

\* C1: a local run in which some file failed and some file decoded and
\* yielded records ends in READY, and the dataset holds exactly the records
\* of the files that succeeded.
C1_PartialFailureTolerated ==
    (RunOver /\ LocalRun /\ SomeFailed /\ SomeYielded)
        => (status = READY /\ SameBag(records, Expected))

\* C2: a local run in which every file failed ends in ERROR with a message,
\* and the dataset is not assigned.
C2_AllFailedIsError ==
    (RunOver /\ LocalRun /\ AllFailed)
        => (status = ERROR /\ error # NoError /\ records = <<>>)

\* C2 witness: a run over two files, both failed, has ended.
C2_Witness ==
    /\ RunOver /\ LocalRun /\ AllFailed
    /\ Len(decoded) = 2
    /\ status = ERROR

\* C3: whenever the status is READY the dataset holds at least one record.
C3_NoSilentEmptySuccess == status = READY => Len(records) >= 1

\* C4: a values request is issued only after the metadata request was
\* answered with a non-empty sheet list; a run whose metadata request failed
\* or reported no sheets ends in ERROR without any values request.
C4_ValuesOnlyAfterMetadata ==
    /\ \A i \in 1..Len(requests) :
          requests[i] = "values"
             => /\ i = 3
                /\ requests[1] = "metadata"
                /\ requests[2] = "metadata ok"
    /\ \A i \in 1..Len(requests) :
          requests[i] \in {"metadata failed", "metadata empty"}
             => /\ status = ERROR
                /\ \A j \in 1..Len(requests) : requests[j] # "values"

\* C4 witness: the metadata request was answered with no sheets and the run
\* has ended.
C4_Witness ==
    /\ RunOver
    /\ requests = <<"metadata", "metadata empty">>
    /\ status = ERROR

\* C5 as claimed: every run that ends in READY has set FETCHING_META,
\* FETCHING_ROWS, PARSING and READY, in that order and nothing else.
C5_AllStatusesInOrder ==
    status = READY
        => statusLog = <<FETCHING_META, FETCHING_ROWS, PARSING, READY>>

\* C5 as amended: every run that ends in READY has set FETCHING_META, then
\* FETCHING_ROWS, then READY; PARSING is set between FETCHING_ROWS and READY
\* except in a local run of the worker pipeline, which has none.
C5_StatusOrderByPipeline ==
    status = READY
        => statusLog = IF app = "worker" /\ LocalRun
                       THEN <<FETCHING_META, FETCHING_ROWS, READY>>
                       ELSE <<FETCHING_META, FETCHING_ROWS, PARSING, READY>>

\* C5 witness: a local run of the worker pipeline is READY without PARSING.
C5_Witness ==
    /\ status = READY
    /\ app = "worker"
    /\ LocalRun
    /\ statusLog = <<FETCHING_META, FETCHING_ROWS, READY>>

\* C6: once READY or ERROR is set the run that set it is over (no step of
\* it is pending); the status leaves ERROR only by the start of a new run
\* and never leaves READY; IDLE is never set again.
C6_TerminalStatuses ==
    [][ /\ status \in {READY, ERROR} => pc = "form"
        /\ (status \in {READY, ERROR} /\ status' # status)
              => /\ status = ERROR
                 /\ status' \in {FETCHING_META, FETCHING_ROWS}
                 /\ statusLog'[1] = FETCHING_META
        /\ status' = IDLE => status = IDLE ]_vars

\* C6 witness: a new run is under way after a run that ended in ERROR in
\* its deferred parse step (which had set the title).
C6_Witness ==
    /\ status \in {FETCHING_META, FETCHING_ROWS}
    /\ sheetTitle # UnknownSheet

\* C7: at most one file is being read or decoded at any moment.
C7_Sequential == Cardinality(inFlight) <= 1

\* C8: spreadsheets are decoded in a worker only, never on the main thread.
C8_DecodeOnlyInWorker == decodeCtx \subseteq {"worker"}

\* C9: when a run is READY no two records of the dataset share an id.
C9_UniqueIds ==
    status = READY
        => \A i, j \in 1..Len(records) : i # j => records[i].id # records[j].id

\* C10: when a run is READY the dataset is the records of the sources that
\* succeeded, in source, then sheet, then row order.
C10_SourceSheetRowOrder == status = READY => records = Expected

\* The positions of the sources that were read and decoded.
Succeeded == {i \in 1..Len(decoded) : decoded[i].st = "ok"}

\* C11: in a local run that is READY the title is the title of the one
\* file that succeeded when exactly one did, and "<count> Local Files" with
\* the number of files that succeeded otherwise; failed files do not count.
C11_MergedTitle ==
    (status = READY /\ LocalRun)
        => /\ Succeeded # {}
           /\ Cardinality(Succeeded) = 1
                 => \A i \in Succeeded : sheetTitle = decoded[i].title
           /\ Cardinality(Succeeded) = 2
                 => sheetTitle = <<"2">> \o LocalFiles
           /\ Cardinality(Succeeded) = 3
                 => sheetTitle = <<"3">> \o LocalFiles
           /\ Cardinality(Succeeded) > 3
                 => sheetTitle = NumToString(Cardinality(Succeeded)) \o LocalFiles

\* C11 witness: three files, one failed, two succeeded, READY with the
\* title "2 Local Files".
C11_Witness ==
    /\ status = READY /\ LocalRun
    /\ Len(decoded) = 3
    /\ SomeFailed
    /\ sheetTitle = <<"2", " ", "L", "o", "c", "a", "l", " ", "F", "i", "l", "e", "s">>

\* C12: a cloud run issues at most one metadata request and at most one
\* values request, and a failure of either ends the run in ERROR with the
\* dataset not assigned.
C12_CloudNoPartialNoRetry ==
    /\ Occurrences(requests, "metadata") <= 1
    /\ Occurrences(requests, "values") <= 1
    /\ (\E i \in 1..Len(requests) :
            requests[i] \in {"metadata failed", "values failed"})
          => /\ RunOver
             /\ status = ERROR
             /\ error # NoError
             /\ records = <<>>

\* C12 witness: the values request of a cloud run failed after the metadata
\* request had been answered with a sheet list.
C12_Witness ==
    /\ requests = <<"metadata", "metadata ok", "values", "values failed">>
    /\ status = ERROR
    /\ records = <<>>

\* The task name a record of sheet number s of source number i must carry
\* in a local run.
NamespacedTask(i, s) ==
    decoded[i].title \o <<" ", ":", ":", " ">> \o decoded[i].sheets[s].name

\* C13: in a READY local run every record's taskName is "F :: S" for a file
\* F that succeeded and a sheet S of it, and same-named sheets of two
\* different files never give the same taskName; in a READY cloud run every
\* record's taskName is the bare name of a sheet of the spreadsheet.
C13_TaskNameNamespaced ==
    status = READY
        => IF LocalRun
           THEN /\ \A r \in 1..Len(records) :
                      \E i \in Succeeded :
                         \E s \in 1..Len(decoded[i].sheets) :
                            records[r].taskName = NamespacedTask(i, s)
                /\ \A i, j \in Succeeded :
                      i # j =>
                         \A s \in 1..Len(decoded[i].sheets) :
                            \A t \in 1..Len(decoded[j].sheets) :
                               decoded[i].sheets[s].name = decoded[j].sheets[t].name
                                  => NamespacedTask(i, s) # NamespacedTask(j, t)
           ELSE \A r \in 1..Len(records) :
                   \E s \in 1..Len(decoded[1].sheets) :
                      records[r].taskName = decoded[1].sheets[s].name

\* ---------------------------------------------------- claims on the parser
\* The key of the call is a string with at least one character.
KeyIsText == call.rawKey # <<>> /\ call.rawKey \notin NonStrings

\* Number of dots of the key of the call.
Dots == Cardinality({i \in 1..Len(call.rawKey) : call.rawKey[i] = "."})

\* What the two implementations of the function called have returned.
Returned == {r \in {ret, workerRet} : r.done}

\* parts is the dot-split of key: joined by dots it gives the key back and
\* no part holds a dot.
IsDotSplit(parts, key) ==
    /\ Len(parts) >= 1
    /\ Join(parts, <<".">>) = key
    /\ \A i \in 1..Len(parts) : \A j \in 1..Len(parts[i]) : parts[i][j] # "."

\* C14: parseKey returns null exactly when the raw key is empty or not a
\* string; for a non-empty key with fewer than 3 dot-segments it returns the
\* degraded record: templateName and originalKey are the whole key, brandId
\* is "Unknown", locale is null and rawParts is the dot-split.
C14_DegradedRecord ==
    call.fn = "parseKey"
        => \A r \in Returned :
              /\ (r.parsed = NullRecord) <=> ~KeyIsText
              /\ (KeyIsText /\ Dots < 2)
                    => /\ r.parsed.templateName = call.rawKey
                       /\ r.parsed.originalKey = call.rawKey
                       /\ r.parsed.brandId = <<"U", "n", "k", "n", "o", "w", "n">>
                       /\ r.parsed.locale = Null
                       /\ IsDotSplit(r.parsed.rawParts, call.rawKey)

\* C14 witness: both implementations have returned the degraded record for
\* the two-segment key "a.T__1234".
C14_Witness ==
    /\ call.fn = "parseKey"
    /\ call.rawKey = <<"a", ".", "T", "_", "_", "1", "2", "3", "4">>
    /\ ret.done /\ workerRet.done
    /\ ret.parsed.templateName = call.rawKey
    /\ workerRet.parsed.brandId = Unknown

\* The segment holds two underscores in a row.
HoldsDoubleUnderscore(seg) ==
    \E j \in 1..(Len(seg) - 1) : seg[j] = "_" /\ seg[j + 1] = "_"

\* The core segment as the rule states it: the first segment holding "__";
\* without one, the segment at index 3 when there is one, else the last.
CoreByRule(parts) ==
    LET marked == {i \in 1..Len(parts) : HoldsDoubleUnderscore(parts[i])}
    IN IF marked # {}
       THEN parts[CHOOSE i \in marked : \A j \in marked : i <= j]
       ELSE IF Len(parts) >= 4 THEN parts[4]
       ELSE parts[Len(parts)]

\* C15: for a key with at least 3 dot-segments the core segment parseKey
\* chooses is the first segment holding "__"; if none holds it, the segment
\* at index 3 whenever there is one, whatever it holds (the empty string
\* included), and the last segment only when there is no index 3.
C15_CoreSegment ==
    (call.fn = "parseKey" /\ KeyIsText /\ Dots >= 2)
        => \A r \in Returned :
              /\ IsDotSplit(r.parsed.rawParts, call.rawKey)
              /\ r.corePart = CoreByRule(r.parsed.rawParts)

\* The "__"-delimited sub-segments of a segment.
SubSegments(seg) == Split(seg, <<"_", "_">>)

\* Exactly 4 ASCII digits.
FourDigits(sub) ==
    /\ Len(sub) = 4
    /\ \A i \in 1..4 :
          sub[i] \in {"0", "1", "2", "3", "4", "5", "6", "7", "8", "9"}

\* The key has the shape a.b.c.Template__type__1234__en_US: three leading
\* segments without "__", then the core segment T__t__1234__e_U.
WellFormed(parts) ==
    /\ Len(parts) >= 4
    /\ \A i \in 1..3 : ~HoldsDoubleUnderscore(parts[i])
    /\ parts[4] = <<"T", "_", "_", "t", "_", "_", "1", "2", "3", "4",
                    "_", "_", "e", "_", "U">>

\* C16: for a key with at least 3 dot-segments templateName is the first
\* "__"-delimited sub-segment of the core segment, and brandId is the first
\* sub-segment of exactly 4 ASCII digits, or "Unknown" without one; a key of
\* the shape a.b.c.Template__type__1234__en_US gives the template, "1234"
\* and the locale.
C16_TemplateAndBrand ==
    (call.fn = "parseKey" /\ KeyIsText /\ Dots >= 2)
        => \A r \in Returned :
              LET subs == SubSegments(r.corePart)
                  digits == {i \in 1..Len(subs) : FourDigits(subs[i])}
              IN /\ r.parsed.templateName = subs[1]
                 /\ ~HoldsDoubleUnderscore(r.parsed.templateName)
                 /\ digits = {}
                       => r.parsed.brandId = <<"U", "n", "k", "n", "o", "w", "n">>
                 /\ digits # {}
                       => \E i \in digits :
                             /\ r.parsed.brandId = subs[i]
                             /\ \A j \in digits : i <= j
                 /\ WellFormed(r.parsed.rawParts)
                       => /\ r.parsed.templateName = <<"T">>
                          /\ r.parsed.brandId = <<"1", "2", "3", "4">>
                          /\ r.parsed.locale = <<"e", "_", "U">>

\* C16 witness: both implementations have parsed a well-formed key that
\* has a segment after the core segment.
C16_Witness ==
    /\ call.fn = "parseKey"
    /\ ret.done /\ workerRet.done
    /\ call.rawKey = <<"a", ".", ".", "a", ".", "T", "_", "_", "t", "_", "_",
                       "1", "2", "3", "4", "_", "_", "e", "_", "U", ".", "e">>
    /\ ret.parsed.brandId = <<"1", "2", "3", "4">>
    /\ workerRet.parsed.templateName = <<"T">>

\* C17: for a key with at least 3 dot-segments locale is the last
\* "__"-delimited sub-segment of the core segment when it differs from the
\* record's templateName and from its brandId, and null otherwise; a locale
\* that is not null equals neither.
C17_Locale ==
    (call.fn = "parseKey" /\ KeyIsText /\ Dots >= 2)
        => \A r \in Returned :
              LET subs == SubSegments(r.corePart)
                  last == subs[Len(subs)]
              IN /\ (last # r.parsed.templateName /\ last # r.parsed.brandId)
                       => r.parsed.locale = last
                 /\ (last = r.parsed.templateName \/ last = r.parsed.brandId)
                       => r.parsed.locale = Null
                 /\ r.parsed.locale # Null
                       => /\ r.parsed.locale # r.parsed.templateName
                          /\ r.parsed.locale # r.parsed.brandId

\* C17 witness: the core segment T__1234 ends in its brand id, so both
\* implementations report no locale.
C17_Witness ==
    /\ call.fn = "parseKey"
    /\ ret.done /\ workerRet.done
    /\ call.rawKey = <<"a", ".", "a", ".", "T", "_", "_", "1", "2", "3", "4">>
    /\ ret.parsed.brandId = <<"1", "2", "3", "4">>
    /\ ret.parsed.locale = Null
    /\ workerRet.parsed.locale = Null

\* The positions (1-based) of the rows of the call whose cell at column
\* index 1 is there and not empty.
KeyRows ==
    {i \in 1..Len(call.rows) :
        Len(call.rows[i]) >= 2 /\ call.rows[i][2] # <<>>}

\* The n-th smallest element of a set of numbers.
NthOf(S, n) == CHOOSE i \in S : Cardinality({k \in S : k < i}) = n - 1

\* C18: processSheetData returns one record for each row whose cell at
\* column index 1 is not empty and none for the others, in row order, rows
\* with equal keys each giving their record, and each record's id ends in
\* the position of its row in the matrix, skipped rows counted.
C18_RowExtraction ==
    call.fn = "processSheetData"
        => \A r \in Returned :
              /\ Len(r.records) = Cardinality(KeyRows)
              /\ \A n \in 1..Len(r.records) :
                    LET i == NthOf(KeyRows, n)
                    IN /\ r.records[n].originalKey = call.rows[i][2]
                       /\ r.records[n].id =
                             <<"a", " ", ":", ":", " ", "S", "-">>
                                \o << <<"0", "1", "2", "3", "4", "5", "6",
                                        "7", "8", "9">>[i] >>

\* C18 witness: two rows with the same key around a row without column B
\* give two records, numbered 0 and 2, in both implementations.
C18_Witness ==
    /\ call.fn = "processSheetData"
    /\ call.rows = << <<CellA, KeyFull>>, <<CellA>>, <<CellA, KeyFull>> >>
    /\ ret.done /\ workerRet.done
    /\ Len(ret.records) = 2
    /\ ret.records[2].id = <<"a", " ", ":", ":", " ", "S", "-", "2">>
    /\ workerRet.records = ret.records

\* ------------------------------------------------- claims on the Dashboard
\* The two characters are the same letter, whatever their case.
SameLetter(a, b) ==
    \/ a = b
    \/ \E u \in 1..26 : {a, b} = {UpperCase[u], LowerCase[u]}

\* term is a substring of text, case ignored.
OccursIn(term, text) ==
    \E off \in 0..(Len(text) - Len(term)) :
       \A k \in 1..Len(term) : SameLetter(term[k], text[off + k])

\* The record satisfies the three predicates of the filter.
Passes(item) ==
    /\ OccursIn(searchTerm, item.templateName)
          \/ OccursIn(searchTerm, item.originalKey)
    /\ brandFilter = <<"A", "l", "l">> \/ item.brandId = brandFilter
    /\ selectedTask = <<"A", "l", "l">> \/ item.taskName = selectedTask

\* The records of the dataset that pass, in dataset order.
PassingRecords ==
    LET P == {i \in 1..Len(records) : Passes(records[i])}
    IN [n \in 1..Cardinality(P) |-> records[NthOf(P, n)]]

\* C19: the filter returns exactly the records for which the query is a
\* case-insensitive substring of templateName or originalKey, the brand is
\* the selected one unless the wildcard is selected, and the task is the
\* selected one unless the wildcard is selected; and selecting a brand or a
\* task that occurs in the dataset returns only records with that value.
C19_Filter ==
    status = READY
        => /\ filteredData = PassingRecords
           /\ FilterDeferredFrom(records, 1) = PassingRecords
           /\ brandFilter \in uniqueBrands
                 => \A i \in 1..Len(filteredData) :
                       filteredData[i].brandId = brandFilter
           /\ selectedTask \in uniqueTasks
                 => \A i \in 1..Len(filteredData) :
                       filteredData[i].taskName = selectedTask

\* The places (group, position in the group) of a list of groups over a
\* list of at most n records.
Places(groups, n) ==
    {pl \in (1..Len(groups)) \X (1..n) : pl[2] <= Len(groups[pl[1]].val)}

\* Where a record stands in a list of records with distinct ids.
PositionIn(list, item) == CHOOSE i \in 1..Len(list) : list[i] = item

\* groups partitions the list by (templateName, brandId), keeps the order
\* of the list inside each group and lists the groups by first occurrence.
PartitionsByTemplateAndBrand(groups, list) ==
    LET places == Places(groups, Len(list))
        at(pl) == groups[pl[1]].val[pl[2]]
    IN /\ \A g \in 1..Len(groups) : Len(groups[g].val) >= 1
       /\ \A i \in 1..Len(list) :
             Cardinality({pl \in places : at(pl) = list[i]}) = 1
       /\ Cardinality(places) = Len(list)
       /\ \A pl, pm \in places :
             (pl[1] = pm[1])
                <=> /\ at(pl).templateName = at(pm).templateName
                    /\ at(pl).brandId = at(pm).brandId
       /\ \A pl, pm \in places :
             (pl[1] = pm[1] /\ pl[2] < pm[2])
                => PositionIn(list, at(pl)) < PositionIn(list, at(pm))
       /\ \A g, h \in 1..Len(groups) :
             g < h => PositionIn(list, groups[g].val[1])
                         < PositionIn(list, groups[h].val[1])

\* C20: the groups partition the filtered records by the pair
\* (templateName, brandId): every filtered record is in exactly one group,
\* two records share a group exactly when they agree on both, records keep
\* dataset order inside a group, and groups are listed in the order of
\* their first record.
C20_Grouping ==
    status = READY
        => /\ PartitionsByTemplateAndBrand(groupedResults, filteredData)
           /\ PartitionsByTemplateAndBrand(filteredGroups,
                                           FilterDeferredFrom(records, 1))

\* C20 witness: the query "t" is set and three records pass it, the first
\* and the third in the first group, the second alone in the second group.
C20_Witness ==
    /\ status = READY
    /\ searchTerm = <<"t">>
    /\ Len(filteredData) = 3
    /\ Len(groupedResults) = 2
    /\ groupedResults[1].val = <<filteredData[1], filteredData[3]>>
    /\ groupedResults[2].val = <<filteredData[2]>>
    /\ filteredGroups = groupedResults

\* The number of records of the dataset with the brand.
CountOf(brand) ==
    Cardinality({i \in 1..Len(records) : records[i].brandId = brand})

\* The number of the first record of the dataset with the brand.
FirstSeen(brand) ==
    CHOOSE i \in 1..Len(records) :
        /\ records[i].brandId = brand
        /\ \A j \in 1..(i - 1) : records[j].brandId # brand

\* The first brand ranks before the second: more records, or as many and
\* encountered earlier.
RanksBefore(b1, b2) ==
    \/ CountOf(b1) > CountOf(b2)
    \/ CountOf(b1) = CountOf(b2) /\ FirstSeen(b1) < FirstSeen(b2)

\* C21: the ranking lists at most 5 brandIds of the unfiltered dataset with
\* their record counts, ordered by count descending, brands of equal count
\* in the order of their first record in the dataset; with more than 5
\* brands it lists the first 5 of that ordering.
C21_TopBrands ==
    status = READY
        => LET brands == {records[i].brandId : i \in 1..Len(records)}
               listed == {chartData[n].name : n \in 1..Len(chartData)}
           IN /\ Len(chartData) <= 5
              /\ Len(chartData) = IF Cardinality(brands) < 5
                                  THEN Cardinality(brands) ELSE 5
              /\ listed \subseteq brands
              /\ Cardinality(listed) = Len(chartData)
              /\ \A n \in 1..Len(chartData) :
                    chartData[n].value = CountOf(chartData[n].name)
              /\ \A n, m \in 1..Len(chartData) :
                    n < m => RanksBefore(chartData[n].name, chartData[m].name)
              /\ \A b \in listed, c \in brands \ listed : RanksBefore(b, c)

\* C22: whatever the search text, the brand selection and the task selection
\* have been changed to, the aggregate statistics (total, distinct taskName,
\* distinct templateName, distinct brandId) and the top-brand ranking are
\* those of all the records the run produced.
C22_StatsUnfiltered ==
    status = READY
        => LET all == Expected
               CountIn(brand) ==
                   Cardinality({i \in 1..Len(all) : all[i].brandId = brand})
           IN /\ stats.totalKeys = Len(all)
              /\ stats.totalTasks
                    = Cardinality({all[i].taskName : i \in 1..Len(all)})
              /\ stats.uniqueTemplates
                    = Cardinality({all[i].templateName : i \in 1..Len(all)})
              /\ stats.uniqueBrands
                    = Cardinality({all[i].brandId : i \in 1..Len(all)})
              /\ Len(chartData) = IF stats.uniqueBrands < 5
                                  THEN stats.uniqueBrands ELSE 5
              /\ \A n \in 1..Len(chartData) :
                    /\ CountIn(chartData[n].name) >= 1
                    /\ chartData[n].value = CountIn(chartData[n].name)
                    /\ \A m \in 1..Len(chartData) :
                          chartData[m].name = chartData[n].name => m = n

\* C22 witness: a query and a brand selection hide a part of the dataset
\* while the statistics count all of it.
C22_Witness ==
    /\ status = READY
    /\ searchTerm = <<"t">>
    /\ brandFilter = <<"5", "6", "7", "8">>
    /\ Len(filteredData) = 1
    /\ stats = [totalKeys |-> 3, totalTasks |-> 2, uniqueBrands |-> 3,
                uniqueTemplates |-> 2]
    /\ Len(chartData) = 3

\* ------------------------------------------ claims on the form and the run
\* The two files have the same name and the same byte size.
SameNameAndSize(f, g) == f.name = g.name /\ f.size = g.size

\* C23: the file selection holds no two files with the same name and the
\* same size, whatever add-files actions (of one or several files at once)
\* and remove-file actions led to it.
C23_SelectionIsSet ==
    \A i, j \in 1..Len(files) :
       SameNameAndSize(files[i], files[j]) => i = j

\* The name ends in .xlsx or in .xls.
AcceptedName(name) ==
    LET n == Len(name)
    IN \/ n >= 5 /\ SubSeq(name, n - 4, n) = <<".", "x", "l", "s", "x">>
       \/ n >= 4 /\ SubSeq(name, n - 3, n) = <<".", "x", "l", "s">>

\* C24: no file whose name does not end in .xlsx or .xls is in the file
\* selection, is handed to a local run, or has a decode attempted for it.
C24_ExtensionAtSelection ==
    /\ \A i \in 1..Len(files) : AcceptedName(files[i].name)
    /\ \A i \in 1..Len(config.files) : AcceptedName(config.files[i].name)
    /\ LocalRun
          => \A i \in 1..Len(decoded) :
                \E f \in FileUniverse :
                   /\ AcceptedName(f.name)
                   /\ decoded[i].title = FileTitle(f.name)

\* C24 witness: a local run over an .xlsx file and an .xls file has had
\* both decoded, and no file of another extension was to be had.
C24_Witness ==
    /\ LocalRun
    /\ Len(config.files) = 2
    /\ config.files[1].name = <<"a", ".", "x", "l", "s", "x">>
    /\ config.files[2].name = <<"b", ".", "x", "l", "s">>
    /\ \A i \in 1..2 : decoded[i].st = "ok"

\* The status the run was in when it set ERROR.
StatusBeforeError == statusLog[Len(statusLog) - 1]

\* What the last request of the run was answered with.
LastAnswer == IF requests = <<>> THEN "none" ELSE requests[Len(requests)]

\* C25: a run sets ERROR from FETCHING_META, FETCHING_ROWS or PARSING only:
\* from FETCHING_META on an invalid configuration (the run read no file and
\* sent no request) and on a metadata request that fails or lists no sheet, from FETCHING_ROWS on a failed values
\* request and when every local file failed, from PARSING when the deferred
\* parse step finds no record.
C25_ErrorFromNonTerminal ==
    RunOver
       => /\ status = ERROR
             => /\ Len(statusLog) >= 2
                /\ StatusBeforeError \in {FETCHING_META, FETCHING_ROWS, PARSING}
          /\ \/ requests = <<>> /\ decoded = <<>>
             \/ LastAnswer \in {"metadata failed", "metadata empty"}
                => /\ status = ERROR
                   /\ StatusBeforeError = FETCHING_META
          /\ (LastAnswer = "values failed" \/ (LocalRun /\ AllFailed))
                => /\ status = ERROR
                   /\ StatusBeforeError = FETCHING_ROWS
          /\ (Len(statusLog) = 4 /\ app # "single" /\ Expected = <<>>)
                => /\ status = ERROR
                   /\ StatusBeforeError = PARSING

\* C25 witness: a run went from PARSING to ERROR in its deferred step, the
\* sheets it read holding no key.
C25_Witness ==
    /\ RunOver
    /\ statusLog = <<FETCHING_META, FETCHING_ROWS, PARSING, ERROR>>
    /\ error \in {"No valid keys found.",
                  "Parsing error: No valid keys found in the source data."}

\* A run went from FETCHING_META to ERROR: the metadata request failed.
C25_FromMetadata ==
    /\ RunOver
    /\ statusLog = <<FETCHING_META, ERROR>>
    /\ LastAnswer = "metadata failed"

\* A run went from FETCHING_META to ERROR: invalid configuration.
C25_FromInvalidConfiguration ==
    /\ RunOver
    /\ statusLog = <<FETCHING_META, ERROR>>
    /\ error = "Invalid Configuration"

\* A run went from FETCHING_ROWS to ERROR: the values request failed.
C25_FromValues ==
    /\ RunOver
    /\ statusLog = <<FETCHING_META, FETCHING_ROWS, ERROR>>
    /\ LastAnswer = "values failed"

\* A run went from FETCHING_ROWS to ERROR: every local file failed.
C25_FromLocalFiles ==
    /\ RunOver
    /\ statusLog = <<FETCHING_META, FETCHING_ROWS, ERROR>>
    /\ LocalRun
    /\ AllFailed

\* C26: the held dataset changes only in the step in which a run sets
\* READY, and there it becomes the complete record list of the run (of all
\* files of the worker loop, of all sheets in the deferred parse step); a
\* step that sets ERROR and every other step of a run leave it unchanged.
C26_DatasetReplacedWholesale ==
    [][ /\ records' # records
           => /\ status # READY
              /\ status' = READY
              /\ pc # "form"
              /\ pc' = "form"
              /\ records' = IF pc = "timer" THEN ParseAll(rawDataMap, 1)
                            ELSE allRecords \o workerMsg.records
        /\ status' # READY => records' = records ]_vars

\* C26 witness: a run over two files is READY and the dataset holds the
\* records of both.
C26_Witness ==
    /\ status = READY
    /\ LocalRun
    /\ Len(decoded) = 2
    /\ \E i, j \in 1..Len(records) :
          /\ records[i].taskName = <<"a">> \o Separator \o SheetS
          /\ records[j].taskName = <<"b">> \o Separator \o SheetS

\* The step starts a run: handleConnect is called with a configuration.
StartsRun == config' # config /\ config'.mode # "none"

\* C27: a run is started only while the status is IDLE or ERROR, and then
\* no step of an earlier run is pending; while the status is FETCHING_META,
\* FETCHING_ROWS or PARSING (the deferred parse step pending included) no
\* run is started and the file selection is out of reach; once the status
\* is READY nothing is started and the status stays READY.
C27_OneRunInFlight ==
    [][ /\ StartsRun => status \in {IDLE, ERROR}
        /\ status \in {IDLE, ERROR} => pc = "form" /\ inFlight = {}
        /\ status \in {FETCHING_META, FETCHING_ROWS, PARSING}
              => /\ pc # "form"
                 /\ ~StartsRun
                 /\ files' = files
        /\ status = READY
              => /\ pc = "form"
                 /\ ~StartsRun
                 /\ status' = READY
                 /\ records' = records ]_vars

\* C27 witness: the deferred parse step of a run is pending and the form is
\* not on screen.
C27_Witness ==
    /\ status = PARSING
    /\ pc = "timer"
    /\ rawDataMap # <<>>
    /\ ~FormShown

\* C28: in every state the status is ERROR exactly when an error message is
\* held: a step that sets ERROR sets the message with it, and the step that
\* starts a run clears the message with setting FETCHING_META.
C28_ErrorAgreesWithStatus ==
    /\ (status = ERROR) <=> (error # "null")
    /\ RunOver => (Len(statusLog) >= 2 /\ statusLog[1] = FETCHING_META)
    /\ (status = FETCHING_META /\ pc # "form") => error = "null"

\* C28 witness: a run is under way with no message held, started from the
\* form that showed the message of a run that had failed in its deferred
\* parse step.
C28_Witness ==
    /\ status \in {FETCHING_META, FETCHING_ROWS}
    /\ error = "null"
    /\ sheetTitle # UnknownSheet
    /\ pc # "form"

\* C29: every run that has started eventually sets READY or ERROR (given
\* that reads, decodes and requests settle and the timer fires); a worker
\* exists only while the promise of its file is pending, and none is left
\* when the run is over.
C29_RunsTerminate ==
    /\ (status \in {FETCHING_META, FETCHING_ROWS, PARSING})
          ~> (status \in {READY, ERROR})
    /\ [](bufferAt = "worker"
             <=> (pc \in {"worker", "reply"} /\ inFlight = {fileIdx}))
    /\ [](pc = "form" => bufferAt = "none" /\ inFlight = {})

\* C29 witness: a run over three files has ended, a worker having decoded
\* each of them in turn, and no worker is left.
C29_Witness ==
    /\ app = "worker"
    /\ RunOver
    /\ Len(decoded) = 3
    /\ \A i \in 1..3 : decoded[i].st # "pending"
    /\ decodeCtx = {"worker"}
    /\ bufferAt = "none"

\* How a local run ends: the status, and with READY the title and the
\* records.
Failure == [status |-> ERROR, title |-> <<>>, records |-> <<>>]

Success(succ, recs) ==
    [status |-> READY, title |-> MergedTitle(succ), records |-> recs]

\* The worker pipeline over the decoded files from number from on, with the
\* records and the titles gathered so far.
RECURSIVE WorkerPipelineFrom(_, _, _, _)
WorkerPipelineFrom(srcs, from, recs, succ) ==
    IF from > Len(srcs)
    THEN IF NoneSucceeded(succ) \/ Len(recs) = 0 THEN Failure
         ELSE Success(succ, recs)
    ELSE LET msg == WorkerOnMessage(srcs[from].title, srcs[from])
         IN IF msg.success
            THEN WorkerPipelineFrom(srcs, from + 1, recs \o msg.records,
                                    Append(succ, srcs[from].title))
            ELSE WorkerPipelineFrom(srcs, from + 1, recs, succ)

\* The main-thread pipeline over the same decoded files.
MainThreadPipeline(srcs) ==
    LET res == [i \in 1..Len(srcs) |->
                   readExcelFile([name |-> srcs[i].title \o Xlsx], srcs[i])]
        succ == SuccessfulTitles(res, 1)
        recs == ParseAll(MergeResults(<<>>, res, 1), 1)
    IN IF NoneSucceeded(succ) \/ Len(recs) = 0 THEN Failure
       ELSE Success(succ, recs)

\* How the run of this state ended.
RunOutcome ==
    IF status = READY
    THEN [status |-> READY, title |-> sheetTitle, records |-> records]
    ELSE [status |-> status, title |-> <<>>, records |-> <<>>]

\* C30: for every list of files and every outcome of their decoding, the
\* worker pipeline and the main-thread pipeline end in the same status and,
\* when READY, with the same title and the same record list, field for
\* field and in the same order; a local run of either App ends as its
\* pipeline says.
C30_PipelinesEquivalent ==
    (RunOver /\ LocalRun /\ app # "single")
        => /\ WorkerPipelineFrom(decoded, 1, <<>>, <<>>)
                 = MainThreadPipeline(decoded)
           /\ app = "worker"
                 => RunOutcome = WorkerPipelineFrom(decoded, 1, <<>>, <<>>)
           /\ app = "allSettled" => RunOutcome = MainThreadPipeline(decoded)

=============================================================================
